---- MODULE Spec2Model ----
(***************************************************************************)
(* Model of lib/infra-stack.ts: the InfraStack constructor, statement by   *)
(* statement, building the construct tree of an aws-cdk-lib application,   *)
(* followed by the synthesis of the template and its deployment by a       *)
(* provisioning engine that creates a resource once everything it          *)
(* references has been created.                                            *)
(*                                                                         *)
(* The constructor only calls aws-cdk-lib.  What each call adds to the     *)
(* tree (default subnet selection of a load balancer, the security groups  *)
(* a construct creates for itself, the rules Connections.allowFrom and     *)
(* addTargets add) is modelled as aws-cdk-lib v2 does it, at the call site *)
(* that triggers it.                                                       *)
(***************************************************************************)
EXTENDS Integers, FiniteSets, Sequences, TLC

\* The environment offers between 2 and MaxAvailableZones availability
\* zones (Stack.availabilityZones: two for an environment-agnostic stack,
\* the zones of the region otherwise).
MaxAvailableZones == 3

VARIABLES
    pc,               \* the constructor's next statement, then the deployment phase
    availableZones,   \* input: the number of zones of the environment (props.env)
    vpcs,             \* ec2.Vpc constructs
    subnets,          \* subnets of the vpc: [name, subnetType, zone]
    natGateways,      \* NAT gateways: [zone] (the public subnet of that zone)
    natRoutes,        \* default routes of the private subnets: [zone, nat]
    securityGroups,   \* [id, allowAllOutbound]
    ingressRules,     \* [group, peer, protocol, fromPort, toPort]
    egressRules,      \* [group, peer, protocol, fromPort, toPort]
    repositories,     \* imported repositories (no resource of the template)
    clusters,         \* ecs.Cluster constructs
    taskDefinitions,  \* [id, cpu, memoryLimitMiB, networkMode]
    containers,       \* [id, taskDefinition, image, portMappings]
    services,         \* ecs.FargateService constructs
    loadBalancers,    \* elbv2.ApplicationLoadBalancer constructs
    listeners,        \* [id, loadBalancer, port, defaultTargetGroups]
    targetGroups,     \* [id, port, targetType]
    databases,        \* rds.DatabaseInstance constructs
    outputs,          \* cdk.CfnOutput: [id, value]
    template,         \* synthesized resources: resource id -> ids it references
    status            \* deployment: resource id -> "absent" | "created"

network  == <<vpcs, subnets, natGateways, natRoutes>>
rules    == <<securityGroups, ingressRules, egressRules>>
compute  == <<repositories, clusters, taskDefinitions, containers, services>>
edge     == <<loadBalancers, listeners, targetGroups>>
deployed == <<template, status>>
vars == <<pc, availableZones, network, rules, compute, edge, databases, outputs, deployed>>

Min(a, b) == IF a <= b THEN a ELSE b

----------------------------------------------------------------------------
\* Literals of the source.

\* new ec2.Vpc(this, 'MyVpc', { maxAzs: 2, ... })
VpcMaxAzs == 2

NatGatewayPerZone == 1 + 1
\* natGateways: 1
VpcNatGateways == 1

\* subnetConfiguration: one public and one private-with-egress group
VpcSubnetConfiguration ==
    << [name |-> "publicSubnet",  subnetType |-> "PUBLIC",              cidrMask |-> 24],
       [name |-> "privateSubnet", subnetType |-> "PRIVATE_WITH_EGRESS", cidrMask |-> 24] >>

EcsOutboundRestricted == FALSE
\* ECSSecurityGroup: allowAllOutbound: true
EcsAllowAllOutbound == TRUE

ContainerTwoPortMappings ==
    << [containerPort |-> 5001, protocol |-> "tcp"],
       [containerPort |-> 80,   protocol |-> "tcp"] >>
\* container.addPortMappings({ containerPort: 5001, protocol: ecs.Protocol.TCP })
ContainerPortMappings == << [containerPort |-> 5001, protocol |-> "tcp"] >>

ServiceInPublicSubnets == [subnetType |-> "PUBLIC"]
\* MyService: vpcSubnets: { subnetType: ec2.SubnetType.PRIVATE_WITH_EGRESS }
ServiceVpcSubnets == [subnetType |-> "PRIVATE_WITH_EGRESS"]

\* MyService: securityGroups: [ecsSecurityGroup]
ServiceSecurityGroups == {"ECSSecurityGroup"}

\* MyALB: internetFacing: true
LoadBalancerInternetFacing == TRUE

\* lb.addListener('MyListener', { port: 80 })
ListenerPort == 80

\* listener.addTargets('MyFargateService', { port: 80, targets: [service] })
TargetGroupPort == 80

\* MyDatabase: vpcSubnets: { subnetType: ec2.SubnetType.PRIVATE_WITH_EGRESS }
DatabaseVpcSubnets == [subnetType |-> "PRIVATE_WITH_EGRESS"]

\* MyDatabase: engine postgres, no port given: the engine's default port
DatabasePort == 5432

DatabaseIngressFromProxy == "MyALB/SecurityGroup"
\* dbInstance.connections.allowFrom(ecsSecurityGroup, ...)
DatabaseIngressPeer == "ECSSecurityGroup"

MySqlPort == 3300 + 6
\* dbInstance.connections.allowFrom(..., ec2.Port.tcp(5432), ...)
DatabaseIngressPort == 5432

----------------------------------------------------------------------------
\* aws-cdk-lib, as the constructor uses it.

AnyIpv4 == "0.0.0.0/0"

AllTraffic == [protocol |-> "-1", fromPort |-> 0, toPort |-> 65535]
Tcp(port)  == [protocol |-> "tcp", fromPort |-> port, toPort |-> port]

Rule(group, peer, range) ==
    [group |-> group, peer |-> peer, protocol |-> range.protocol,
     fromPort |-> range.fromPort, toPort |-> range.toPort]

\* ec2.Vpc: one subnet of every configured group in each of the first
\* min(maxAzs, available) zones.
VpcZones(available) == 1 .. Min(VpcMaxAzs, available)

VpcSubnets(available) ==
    { [name |-> VpcSubnetConfiguration[i].name,
       subnetType |-> VpcSubnetConfiguration[i].subnetType,
       zone |-> z] : i \in DOMAIN VpcSubnetConfiguration, z \in VpcZones(available) }

\* ec2.Vpc: the NAT gateways sit in the public subnets of the first
\* natGateways zones.
VpcNatZones(available) == 1 .. Min(VpcNatGateways, Cardinality(VpcZones(available)))

\* ec2.Vpc: a private subnet's default route goes to the NAT gateway of its
\* own zone when there is one, else to the gateways in turn.
VpcNatRoutes(available) ==
    LET n == Cardinality(VpcNatZones(available))
    IN  { [zone |-> z, nat |-> IF z <= n THEN z ELSE ((z - n - 1) % n) + 1]
          : z \in { s.zone : s \in { t \in VpcSubnets(available) :
                                        t.subnetType = "PRIVATE_WITH_EGRESS" } } }

\* vpc.selectSubnets({ subnetType })
SelectSubnets(all, selection) == { s \in all : s.subnetType = selection.subnetType }

\* elbv2.BaseLoadBalancer: without vpcSubnets, an internet-facing balancer
\* takes the public subnets and an internal one the private ones.
LoadBalancerVpcSubnets(internetFacing) ==
    IF internetFacing THEN [subnetType |-> "PUBLIC"]
                      ELSE [subnetType |-> "PRIVATE_WITH_EGRESS"]

\* new ec2.SecurityGroup: allowAllOutbound adds the all-traffic egress rule.
\* (Without it the group starts with a placeholder rule that matches no
\* traffic, which is left out here.)
NewSecurityGroupEgress(id, allowAllOutbound) ==
    IF allowAllOutbound THEN { Rule(id, AnyIpv4, AllTraffic) } ELSE {}

\* Connections.allowFrom(peer, port) on the groups of a construct: an
\* ingress rule on each of them ...
AllowFromIngress(groups, peer, range) == { Rule(g, peer, range) : g \in groups }

\* ... and, when the peer is a security group that does not already allow
\* all outbound traffic, the matching egress rule on the peer.
AllowFromEgress(groups, peer, range) ==
    IF \E sg \in securityGroups : sg.id = peer /\ ~sg.allowAllOutbound
    THEN { Rule(peer, g, range) : g \in groups }
    ELSE {}

\* ecs.FargateTaskDefinition: the default container is the first one added.
DefaultContainer(taskDefinition) ==
    LET own == SelectSeq(containers, LAMBDA c : c.taskDefinition = taskDefinition)
    IN  own[1]

DeclaredTargetPort(container) == TargetGroupPort
\* ecs.BaseService.attachToApplicationTargetGroup: the service registers its
\* default container on that container's first port mapping, whatever port
\* the target group was declared with.
ServiceTargetPort(container) == container.portMappings[1].containerPort

\* rds.DatabaseInstance: publiclyAccessible defaults to whether the instance
\* was placed in public subnets.
DatabasePubliclyAccessible(selection) == selection.subnetType = "PUBLIC"

----------------------------------------------------------------------------
Init ==
    /\ pc = "MyVpc"
    /\ availableZones \in 2 .. MaxAvailableZones
    /\ vpcs = {} /\ subnets = {} /\ natGateways = {} /\ natRoutes = {}
    /\ securityGroups = {} /\ ingressRules = {} /\ egressRules = {}
    /\ repositories = {} /\ clusters = {} /\ taskDefinitions = {}
    /\ containers = << >> /\ services = {}
    /\ loadBalancers = {} /\ listeners = {} /\ targetGroups = {}
    /\ databases = {} /\ outputs = {}
    /\ template = << >> /\ status = << >>

\* const vpc = new ec2.Vpc(this, 'MyVpc', {...})
NewVpc ==
    /\ pc = "MyVpc"
    /\ vpcs' = {"MyVpc"}
    /\ subnets' = VpcSubnets(availableZones)
    /\ natGateways' = { [zone |-> z] : z \in VpcNatZones(availableZones) }
    /\ natRoutes' = VpcNatRoutes(availableZones)
    /\ pc' = "ECSSecurityGroup"
    /\ UNCHANGED <<availableZones, rules, compute, edge, databases, outputs, deployed>>

\* const ecsSecurityGroup = new ec2.SecurityGroup(this, 'ECSSecurityGroup', {...})
NewEcsSecurityGroup ==
    /\ pc = "ECSSecurityGroup"
    /\ securityGroups' = securityGroups \cup
           { [id |-> "ECSSecurityGroup", allowAllOutbound |-> EcsAllowAllOutbound] }
    /\ egressRules' = egressRules \cup
           NewSecurityGroupEgress("ECSSecurityGroup", EcsAllowAllOutbound)
    /\ pc' = "MyRepository"
    /\ UNCHANGED <<availableZones, network, ingressRules, compute, edge, databases,
                   outputs, deployed>>

\* const repository = ecr.Repository.fromRepositoryName(this, 'MyRepository', 'teju-ecr')
FromRepositoryName ==
    /\ pc = "MyRepository"
    /\ repositories' = { [id |-> "MyRepository", repositoryName |-> "teju-ecr"] }
    /\ pc' = "MyCluster"
    /\ UNCHANGED <<availableZones, network, rules, clusters, taskDefinitions, containers,
                   services, edge, databases, outputs, deployed>>

\* const cluster = new ecs.Cluster(this, 'MyCluster', { vpc })
NewCluster ==
    /\ pc = "MyCluster"
    /\ clusters' = { [id |-> "MyCluster", vpc |-> "MyVpc"] }
    /\ pc' = "MyTaskDefinition"
    /\ UNCHANGED <<availableZones, network, rules, repositories, taskDefinitions,
                   containers, services, edge, databases, outputs, deployed>>

\* const taskDefinition = new ecs.FargateTaskDefinition(this, 'MyTaskDefinition', {...})
NewTaskDefinition ==
    /\ pc = "MyTaskDefinition"
    /\ taskDefinitions' = { [id |-> "MyTaskDefinition", memoryLimitMiB |-> 512,
                             cpu |-> 256, networkMode |-> "awsvpc"] }
    /\ pc' = "MyContainer"
    /\ UNCHANGED <<availableZones, network, rules, repositories, clusters, containers,
                   services, edge, databases, outputs, deployed>>

\* const container = taskDefinition.addContainer('MyContainer', {...})
AddContainer ==
    /\ pc = "MyContainer"
    /\ containers' = Append(containers,
           [id |-> "MyContainer", taskDefinition |-> "MyTaskDefinition",
            image |-> "MyRepository", portMappings |-> << >>])
    /\ pc' = "addPortMappings"
    /\ UNCHANGED <<availableZones, network, rules, repositories, clusters,
                   taskDefinitions, services, edge, databases, outputs, deployed>>

\* container.addPortMappings({...})
AddPortMappings ==
    /\ pc = "addPortMappings"
    /\ containers' = [ i \in DOMAIN containers |->
           IF containers[i].id = "MyContainer"
           THEN [containers[i] EXCEPT !.portMappings = @ \o ContainerPortMappings]
           ELSE containers[i] ]
    /\ pc' = "MyService"
    /\ UNCHANGED <<availableZones, network, rules, repositories, clusters,
                   taskDefinitions, services, edge, databases, outputs, deployed>>

\* const service = new ecs.FargateService(this, 'MyService', {...})
NewService ==
    /\ pc = "MyService"
    /\ services' = { [id |-> "MyService", cluster |-> "MyCluster",
                      taskDefinition |-> "MyTaskDefinition",
                      securityGroups |-> ServiceSecurityGroups,
                      assignPublicIp |-> FALSE, desiredCount |-> 1,
                      subnets |-> SelectSubnets(subnets, ServiceVpcSubnets),
                      loadBalancers |-> {}] }
    /\ pc' = "MyALB"
    /\ UNCHANGED <<availableZones, network, rules, repositories, clusters,
                   taskDefinitions, containers, edge, databases, outputs, deployed>>

\* const lb = new elbv2.ApplicationLoadBalancer(this, 'MyALB', { vpc, internetFacing: true })
\* The balancer creates its own security group, with allowAllOutbound: false.
NewLoadBalancer ==
    /\ pc = "MyALB"
    /\ loadBalancers' = { [id |-> "MyALB", internetFacing |-> LoadBalancerInternetFacing,
                           subnets |-> SelectSubnets(subnets,
                               LoadBalancerVpcSubnets(LoadBalancerInternetFacing)),
                           securityGroups |-> {"MyALB/SecurityGroup"}] }
    /\ securityGroups' = securityGroups \cup
           { [id |-> "MyALB/SecurityGroup", allowAllOutbound |-> FALSE] }
    /\ egressRules' = egressRules \cup NewSecurityGroupEgress("MyALB/SecurityGroup", FALSE)
    /\ pc' = "MyListener"
    /\ UNCHANGED <<availableZones, network, ingressRules, compute, listeners,
                   targetGroups, databases, outputs, deployed>>

\* const listener = lb.addListener('MyListener', { port: 80 })
\* A listener is open unless told otherwise: its balancer admits anyone on its port.
AddListener ==
    /\ pc = "MyListener"
    /\ \E lb \in loadBalancers :
          /\ lb.id = "MyALB"
          /\ listeners' = listeners \cup
                 { [id |-> "MyListener", loadBalancer |-> lb.id, port |-> ListenerPort,
                    defaultTargetGroups |-> {}] }
          /\ ingressRules' = ingressRules \cup
                 AllowFromIngress(lb.securityGroups, AnyIpv4, Tcp(ListenerPort))
          /\ egressRules' = egressRules \cup
                 AllowFromEgress(lb.securityGroups, AnyIpv4, Tcp(ListenerPort))
    /\ pc' = "MyFargateService"
    /\ UNCHANGED <<availableZones, network, securityGroups, compute, loadBalancers,
                   targetGroups, databases, outputs, deployed>>

\* listener.addTargets('MyFargateService', { port: 80, targets: [service] })
\* A target group of the declared port becomes the listener's default action;
\* the service registers its default container with the group, and the
\* balancer is allowed to reach the service on the registered port.
AddTargets ==
    /\ pc = "MyFargateService"
    /\ \E l \in listeners, svc \in services, lb \in loadBalancers :
          /\ l.id = "MyListener" /\ svc.id = "MyService" /\ lb.id = l.loadBalancer
          /\ LET group  == "MyListener/MyFargateServiceGroup"
                 target == DefaultContainer(svc.taskDefinition)
                 port   == ServiceTargetPort(target)
             IN  /\ targetGroups' = targetGroups \cup
                        { [id |-> group, port |-> TargetGroupPort, targetType |-> "ip"] }
                 /\ listeners' = (listeners \ {l}) \cup
                        { [l EXCEPT !.defaultTargetGroups = @ \cup {group}] }
                 /\ services' = (services \ {svc}) \cup
                        { [svc EXCEPT !.loadBalancers = @ \cup
                              { [targetGroup |-> group, containerName |-> target.id,
                                 containerPort |-> port] }] }
                 /\ \E peer \in lb.securityGroups :
                       /\ ingressRules' = ingressRules \cup
                              AllowFromIngress(svc.securityGroups, peer, Tcp(port))
                       /\ egressRules' = egressRules \cup
                              AllowFromEgress(svc.securityGroups, peer, Tcp(port))
    /\ pc' = "LoadBalancerDNS"
    /\ UNCHANGED <<availableZones, network, securityGroups, repositories, clusters,
                   taskDefinitions, containers, loadBalancers, databases, outputs,
                   deployed>>

\* new cdk.CfnOutput(this, 'LoadBalancerDNS', { value: lb.loadBalancerDnsName })
OutputLoadBalancerDNS ==
    /\ pc = "LoadBalancerDNS"
    /\ outputs' = outputs \cup { [id |-> "LoadBalancerDNS", value |-> "MyALB"] }
    /\ pc' = "MyDatabase"
    /\ UNCHANGED <<availableZones, network, rules, compute, edge, databases, deployed>>

\* const dbInstance = new rds.DatabaseInstance(this, 'MyDatabase', {...})
\* The instance creates its own security group, a subnet group over the
\* selected subnets and, for the generated credentials, a secret.
NewDatabase ==
    /\ pc = "MyDatabase"
    /\ databases' = { [id |-> "MyDatabase", engine |-> "postgres", port |-> DatabasePort,
                       subnets |-> SelectSubnets(subnets, DatabaseVpcSubnets),
                       securityGroups |-> {"MyDatabase/SecurityGroup"},
                       publiclyAccessible |-> DatabasePubliclyAccessible(DatabaseVpcSubnets),
                       multiAz |-> FALSE, deletionProtection |-> FALSE,
                       secret |-> "MyDatabase/Secret"] }
    /\ securityGroups' = securityGroups \cup
           { [id |-> "MyDatabase/SecurityGroup", allowAllOutbound |-> TRUE] }
    /\ egressRules' = egressRules \cup
           NewSecurityGroupEgress("MyDatabase/SecurityGroup", TRUE)
    /\ pc' = "DatabaseEndpoint"
    /\ UNCHANGED <<availableZones, network, ingressRules, compute, edge, outputs,
                   deployed>>

\* new cdk.CfnOutput(this, 'DatabaseEndpoint', { value: dbInstance.dbInstanceEndpointAddress })
OutputDatabaseEndpoint ==
    /\ pc = "DatabaseEndpoint"
    /\ outputs' = outputs \cup { [id |-> "DatabaseEndpoint", value |-> "MyDatabase"] }
    /\ pc' = "allowFrom"
    /\ UNCHANGED <<availableZones, network, rules, compute, edge, databases, deployed>>

\* dbInstance.connections.allowFrom(ecsSecurityGroup, ec2.Port.tcp(5432), ...)
AllowFrom ==
    /\ pc = "allowFrom"
    /\ \E db \in databases :
          /\ db.id = "MyDatabase"
          /\ ingressRules' = ingressRules \cup
                 AllowFromIngress(db.securityGroups, DatabaseIngressPeer,
                                  Tcp(DatabaseIngressPort))
          /\ egressRules' = egressRules \cup
                 AllowFromEgress(db.securityGroups, DatabaseIngressPeer,
                                 Tcp(DatabaseIngressPort))
    /\ pc' = "synth"
    /\ UNCHANGED <<availableZones, network, securityGroups, compute, edge, databases,
                   outputs, deployed>>

----------------------------------------------------------------------------
\* The template: one entry per resource, with the resources it references
\* (Ref, Fn::GetAtt and DependsOn alike).  A subnet entry stands for the
\* subnet with its route table and default route; the roles and the log
\* group of the task definition are part of its entry.

Resource(name)   == <<"Resource", name, "", 0>>
SubnetResource(s) == <<"Subnet", s.name, "", s.zone>>
NatResource(zone) == <<"Resource", "MyVpc/NATGateway", "", zone>>
IngressResource(r) == <<"Ingress", r.group, r.peer, r.fromPort>>
EgressResource(r)  == <<"Egress", r.group, r.peer, r.fromPort>>

IsGroup(peer) == \E sg \in securityGroups : sg.id = peer

InlineRuleReferences(r) == {Resource(r.peer)}
\* What a security group's own entry references on account of a rule with
\* another group: nothing.  Such a rule is a resource of its own
\* (SecurityGroupIngress, SecurityGroupEgress) that references both groups;
\* only a rule whose peer is an address range is a property of its group.
RuleReferences(r) == {}

SubnetReferences(s) ==
    IF s.subnetType = "PUBLIC"
    THEN {Resource("MyVpc"), Resource("MyVpc/IGW")}
    ELSE {Resource("MyVpc")} \cup
         { NatResource(r.nat) : r \in { t \in natRoutes : t.zone = s.zone } }

GroupReferences(sg) ==
    {Resource("MyVpc")} \cup
    UNION { RuleReferences(r) : r \in { t \in ingressRules \cup egressRules :
                                           t.group = sg.id /\ IsGroup(t.peer) } }

\* The service waits for the listeners that forward to its target groups.
ServiceReferences(svc) ==
    {Resource(svc.cluster), Resource(svc.taskDefinition)}
    \cup { Resource(g) : g \in svc.securityGroups }
    \cup { SubnetResource(s) : s \in svc.subnets }
    \cup { Resource(t.targetGroup) : t \in svc.loadBalancers }
    \cup { Resource(l.id) : l \in { m \in listeners :
               \E t \in svc.loadBalancers : t.targetGroup \in m.defaultTargetGroups } }

LoadBalancerReferences(lb) ==
    { Resource(g) : g \in lb.securityGroups } \cup { SubnetResource(s) : s \in lb.subnets }

ListenerReferences(l) ==
    {Resource(l.loadBalancer)} \cup { Resource(g) : g \in l.defaultTargetGroups }

DatabaseReferences(db) ==
    {Resource("MyDatabase/SubnetGroup"), Resource(db.secret)}
    \cup { Resource(g) : g \in db.securityGroups }

Entry(id, references) == [id |-> id, references |-> references]

TemplateEntries ==
    { Entry(Resource(v), {}) : v \in vpcs }
    \cup { Entry(Resource("MyVpc/IGW"), {Resource(v)}) : v \in vpcs }
    \cup { Entry(SubnetResource(s), SubnetReferences(s)) : s \in subnets }
    \cup { Entry(NatResource(n.zone),
                 { SubnetResource(s) : s \in { t \in subnets :
                       t.subnetType = "PUBLIC" /\ t.zone = n.zone } }) : n \in natGateways }
    \cup { Entry(Resource(sg.id), GroupReferences(sg)) : sg \in securityGroups }
    \cup { Entry(IngressResource(r), {Resource(r.group), Resource(r.peer)})
           : r \in { t \in ingressRules : IsGroup(t.peer) } }
    \cup { Entry(EgressResource(r), {Resource(r.group), Resource(r.peer)})
           : r \in { t \in egressRules : IsGroup(t.peer) } }
    \cup { Entry(Resource(c.id), {}) : c \in clusters }
    \cup { Entry(Resource(t.id), {}) : t \in taskDefinitions }
    \cup { Entry(Resource(svc.id), ServiceReferences(svc)) : svc \in services }
    \cup { Entry(Resource(lb.id), LoadBalancerReferences(lb)) : lb \in loadBalancers }
    \cup { Entry(Resource(g.id), {Resource("MyVpc")}) : g \in targetGroups }
    \cup { Entry(Resource(l.id), ListenerReferences(l)) : l \in listeners }
    \cup { Entry(Resource("MyDatabase/SubnetGroup"),
                 { SubnetResource(s) : s \in db.subnets }) : db \in databases }
    \cup { Entry(Resource(db.secret), {}) : db \in databases }
    \cup { Entry(Resource(db.id), DatabaseReferences(db)) : db \in databases }
    \cup { Entry(Resource("MyDatabase/Secret/Attachment"),
                 {Resource(db.secret), Resource(db.id)}) : db \in databases }

\* app.synth(): the construct tree becomes the template.
Synthesize ==
    /\ pc = "synth"
    /\ template' = [ id \in { e.id : e \in TemplateEntries } |->
                        UNION { e.references : e \in { f \in TemplateEntries : f.id = id } } ]
    /\ status' = [ id \in { e.id : e \in TemplateEntries } |-> "absent" ]
    /\ pc' = "deploy"
    /\ UNCHANGED <<availableZones, network, rules, compute, edge, databases, outputs>>

\* The provisioning engine creates a resource that does not exist yet once
\* every resource it references has been created.
Create(id) ==
    /\ pc = "deploy"
    /\ status[id] = "absent"
    /\ \A d \in template[id] : d \in DOMAIN status /\ status[d] = "created"
    /\ status' = [status EXCEPT ![id] = "created"]
    /\ UNCHANGED <<pc, availableZones, network, rules, compute, edge, databases,
                   outputs, template>>

Next ==
    \/ NewVpc
    \/ NewEcsSecurityGroup
    \/ FromRepositoryName
    \/ NewCluster
    \/ NewTaskDefinition
    \/ AddContainer
    \/ AddPortMappings
    \/ NewService
    \/ NewLoadBalancer
    \/ AddListener
    \/ AddTargets
    \/ OutputLoadBalancerDNS
    \/ NewDatabase
    \/ OutputDatabaseEndpoint
    \/ AllowFrom
    \/ Synthesize
    \/ \E id \in DOMAIN template : Create(id)

Spec == Init /\ [][Next]_vars

FairSpec == Spec /\ WF_vars(Next)
----------------------------------------------------------------------------
\* Vocabulary of the properties.

\* The constructor has returned.
Built == pc \in {"synth", "deploy"}

PrivateTier(s) == s.subnetType \in {"PRIVATE_WITH_EGRESS", "PRIVATE_ISOLATED"}
PublicTier(s)  == s.subnetType = "PUBLIC"

\* The parties of the traffic: the internet and the three placed constructs,
\* each with its security groups, its subnets, whether it has a public
\* address, and the ports it listens on.
Internet ==
    [id |-> "internet", securityGroups |-> {}, subnets |-> {}, public |-> TRUE,
     ports |-> {}]

Endpoints ==
    {Internet}
    \cup { [id |-> lb.id, securityGroups |-> lb.securityGroups, subnets |-> lb.subnets,
            public |-> lb.internetFacing,
            ports |-> { l.port : l \in { m \in listeners : m.loadBalancer = lb.id } }]
           : lb \in loadBalancers }
    \cup { [id |-> svc.id, securityGroups |-> svc.securityGroups, subnets |-> svc.subnets,
            public |-> svc.assignPublicIp,
            ports |-> UNION { { containers[i].portMappings[j].containerPort
                                : j \in DOMAIN containers[i].portMappings }
                              : i \in { k \in DOMAIN containers :
                                    containers[k].taskDefinition = svc.taskDefinition } }]
           : svc \in services }
    \cup { [id |-> db.id, securityGroups |-> db.securityGroups, subnets |-> db.subnets,
            public |-> db.publiclyAccessible, ports |-> {db.port}]
           : db \in databases }

Covers(r, port) == r.protocol \in {"tcp", "-1"} /\ r.fromPort <= port /\ port <= r.toPort

\* A rule's peer admits a party: an address range admits everyone, a
\* security group the parties it is attached to.
PeerAdmits(peer, e) == peer = AnyIpv4 \/ peer \in e.securityGroups

EgressPermits(a, b, port) ==
    \/ a.id = "internet"
    \/ \E r \in egressRules :
          r.group \in a.securityGroups /\ PeerAdmits(r.peer, b) /\ Covers(r, port)

IngressPermits(b, a, port) ==
    \E r \in ingressRules :
       r.group \in b.securityGroups /\ PeerAdmits(r.peer, a) /\ Covers(r, port)

\* A subnet with a default route: to the internet gateway or to a NAT gateway.
HasEgressRoute(s) == PublicTier(s) \/ \E r \in natRoutes : r.zone = s.zone

\* Subnet placement: the internet reaches only a publicly addressed party in
\* public subnets, and is reached from subnets with a default route; inside
\* the network every subnet reaches every other.
Routed(a, b) ==
    IF a.id = "internet"
    THEN b.public /\ b.subnets # {} /\ \A s \in b.subnets : PublicTier(s)
    ELSE IF b.id = "internet"
         THEN a.subnets # {} /\ \A s \in a.subnets : HasEgressRoute(s)
         ELSE TRUE

\* a may open a connection to b: to a port b listens on, allowed out of a
\* and into b; to the internet, allowed out of a to any address.
Hop(a, b) ==
    /\ a.id # b.id
    /\ Routed(a, b)
    /\ IF b.id = "internet"
       THEN \E r \in egressRules : r.group \in a.securityGroups /\ r.peer = AnyIpv4
       ELSE \E port \in b.ports : EgressPermits(a, b, port) /\ IngressPermits(b, a, port)

Hops == { <<p[1].id, p[2].id>> : p \in { q \in Endpoints \X Endpoints : Hop(q[1], q[2]) } }

RECURSIVE ReachableWithout(_, _)
\* The parties reachable from those of seen by hops that avoid `avoided`.
ReachableWithout(seen, avoided) ==
    LET more == { h[2] : h \in { g \in Hops : g[1] \in seen /\ g[2] # avoided } }
    IN  IF more \subseteq seen THEN seen ELSE ReachableWithout(seen \cup more, avoided)

\* The security groups attached to the compute service or to the database.
BoundaryGroups ==
    UNION { svc.securityGroups : svc \in services }
    \cup UNION { db.securityGroups : db \in databases }

RECURSIVE Unordered(_)
\* What is left of a set of resources after taking away, again and again,
\* those that reference nothing left: empty exactly when the references
\* among them have no cycle.
Unordered(left) ==
    LET free == { id \in left : template[id] \cap left = {} }
    IN  IF free = {} THEN left ELSE Unordered(left \ free)

AllCreated == pc = "deploy" /\ \A id \in DOMAIN status : status[id] = "created"

----------------------------------------------------------------------------
\* Properties.

\* C1: in the graph the constructor builds, every subnet selected for
\* MyService and for MyDatabase is a private-tier subnet and every subnet
\* selected for MyALB is a public-tier subnet (and each has subnets).
C1_Placement ==
    /\ \A svc \in services : \A s \in svc.subnets : PrivateTier(s)
    /\ \A db \in databases : \A s \in db.subnets : PrivateTier(s)
    /\ \A lb \in loadBalancers : \A s \in lb.subnets : PublicTier(s)
    /\ Built => /\ \E svc \in services : svc.id = "MyService" /\ svc.subnets # {}
                /\ \E db \in databases : db.id = "MyDatabase" /\ db.subnets # {}
                /\ \E lb \in loadBalancers : lb.id = "MyALB" /\ lb.subnets # {}

\* C1, reached: the constructor has returned with subnets selected for all three.
C1_Placed ==
    /\ Built
    /\ \E svc \in services : svc.subnets # {}
    /\ \E db \in databases : db.subnets # {}
    /\ \E lb \in loadBalancers : lb.subnets # {}

\* C2 (as stated): the security boundary, the groups attached to the
\* compute service and to the database, has no inbound rule other than
\* TCP 5432 from ECSSecurityGroup.
C2_NoOtherInboundRule ==
    Built => \A r \in ingressRules :
                r.group \in BoundaryGroups =>
                    /\ r.peer = "ECSSecurityGroup"
                    /\ r.protocol = "tcp" /\ r.fromPort = 5432 /\ r.toPort = 5432

\* C2 (amended): inbound traffic on the database port is permitted only
\* from ECSSecurityGroup and only into the database's group, whose one
\* inbound rule is TCP 5432 from ECSSecurityGroup; the only other inbound
\* rule of the boundary is the compute group's, which admits the load
\* balancer's group on the container port.
C2_DatabaseIngress ==
    Built =>
       /\ \A r \in ingressRules :
             Covers(r, DatabasePort) =>
                /\ r.peer = "ECSSecurityGroup"
                /\ \E db \in databases : r.group \in db.securityGroups
       /\ \A db \in databases :
             /\ db.port = 5432
             /\ { r \in ingressRules : r.group \in db.securityGroups }
                  = { Rule(g, "ECSSecurityGroup", Tcp(5432)) : g \in db.securityGroups }
       /\ { r \in ingressRules : r.group \in BoundaryGroups }
            = { Rule(g, "ECSSecurityGroup", Tcp(5432))
                : g \in UNION { db.securityGroups : db \in databases } }
              \cup { Rule("ECSSecurityGroup", "MyALB/SecurityGroup", Tcp(5001)) }

\* C2, reached: allowFrom has declared a rule on the database port.
C2_DatabaseRuleDeclared ==
    /\ Built
    /\ \E db \in databases : \E r \in ingressRules :
          r.group \in db.securityGroups /\ Covers(r, db.port)

\* C3 (as stated): the permitted hops between internet, load balancer,
\* compute service and database are exactly internet-to-proxy,
\* proxy-to-compute and compute-to-database.
C3_ExactlyThreeHops ==
    Built => Hops = { <<"internet", "MyALB">>, <<"MyALB", "MyService">>,
                      <<"MyService", "MyDatabase">> }

\* C3 (amended): internet-to-proxy, proxy-to-compute and compute-to-database
\* are permitted; the only hop into the compute service is from the proxy and
\* the only hop into the database is from the compute service, so neither
\* the internet nor the load balancer reaches the database directly and
\* every path from the internet to the database passes through the compute
\* service.  The remaining permitted hops are those into the proxy, which
\* admits any source on its listener port, and those out to the internet
\* from the compute service and the database.
C3_PathsThroughCompute ==
    Built =>
       /\ { <<"internet", "MyALB">>, <<"MyALB", "MyService">>,
            <<"MyService", "MyDatabase">> } \subseteq Hops
       /\ { h \in Hops : h[2] = "MyService" }  = { <<"MyALB", "MyService">> }
       /\ { h \in Hops : h[2] = "MyDatabase" } = { <<"MyService", "MyDatabase">> }
       /\ <<"internet", "MyDatabase">> \notin Hops
       /\ <<"MyALB", "MyDatabase">> \notin Hops
       /\ "MyDatabase" \notin ReachableWithout({"internet"}, "MyService")
       /\ "MyDatabase" \in ReachableWithout({"internet"}, "nobody")
       /\ Hops \ { <<"internet", "MyALB">>, <<"MyALB", "MyService">>,
                   <<"MyService", "MyDatabase">> }
            = { <<"MyService", "MyALB">>, <<"MyDatabase", "MyALB">>,
                <<"MyService", "internet">>, <<"MyDatabase", "internet">> }

\* C3, reached: the database is reachable from the internet by permitted hops,
\* and a hop outside the three named ones is permitted.
C3_DatabaseReachedFromInternet ==
    /\ Built
    /\ "MyDatabase" \in ReachableWithout({"internet"}, "nobody")
    /\ <<"MyService", "MyALB">> \in Hops

\* C4: one network; two zones, each with exactly one public and exactly one
\* private-with-egress subnet and no other subnet; exactly one NAT gateway,
\* to which the default route of every private subnet goes; and the
\* template holds exactly these.
C4_Network ==
    Built =>
       /\ Cardinality(vpcs) = 1
       /\ Cardinality({ s.zone : s \in subnets }) = 2
       /\ \A z \in { s.zone : s \in subnets } :
             /\ Cardinality({ s \in subnets : s.zone = z /\ PublicTier(s) }) = 1
             /\ Cardinality({ s \in subnets : s.zone = z
                                 /\ s.subnetType = "PRIVATE_WITH_EGRESS" }) = 1
             /\ Cardinality({ s \in subnets : s.zone = z }) = 2
       /\ Cardinality(natGateways) = 1
       /\ \A s \in { t \in subnets : PrivateTier(t) } :
             /\ Cardinality({ r \in natRoutes : r.zone = s.zone }) = 1
             /\ \A r \in { t \in natRoutes : t.zone = s.zone } :
                   [zone |-> r.nat] \in natGateways
       /\ pc = "deploy" =>
             /\ Cardinality({ id \in DOMAIN template : id[1] = "Subnet" }) = 4
             /\ Cardinality({ id \in DOMAIN template : id[2] = "MyVpc/NATGateway" }) = 1
             /\ \A id \in { i \in DOMAIN template : i[2] = "privateSubnet" } :
                   \E n \in template[id] : n[2] = "MyVpc/NATGateway"

\* C4, reached: the template is synthesized in an environment that offers more
\* zones than maxAzs.
C4_NetworkSynthesized ==
    /\ pc = "deploy"
    /\ availableZones > VpcMaxAzs
    /\ Cardinality(subnets) = 4
    /\ natGateways # {}

\* C5: the task definition has exactly one container with exactly one port
\* mapping, and that mapping's port is the port through which the compute
\* service is exposed: the one it registers with the load balancer and the
\* one its security group opens.
C5_PublishedPort ==
    Built =>
       /\ Cardinality(taskDefinitions) = 1
       /\ \A td \in taskDefinitions :
             LET own == SelectSeq(containers, LAMBDA c : c.taskDefinition = td.id)
             IN  /\ Len(own) = 1
                 /\ Len(own[1].portMappings) = 1
                 /\ \A svc \in { v \in services : v.taskDefinition = td.id } :
                       /\ svc.loadBalancers # {}
                       /\ \A t \in svc.loadBalancers :
                             /\ t.containerName = own[1].id
                             /\ t.containerPort = own[1].portMappings[1].containerPort
                       /\ \A r \in { q \in ingressRules : q.group \in svc.securityGroups } :
                             /\ r.fromPort = own[1].portMappings[1].containerPort
                             /\ r.toPort = own[1].portMappings[1].containerPort

\* C5, reached: the service is registered with the load balancer on port 5001.
C5_ServiceExposed ==
    /\ Built
    /\ \E svc \in services : \E t \in svc.loadBalancers : t.containerPort = 5001
    /\ Len(containers) = 1

\* C7: ECSSecurityGroup permits all outbound traffic, admits the load
\* balancer's security group, and is the only group of the compute service.
C7_ComputeGroup ==
    Built =>
       /\ [id |-> "ECSSecurityGroup", allowAllOutbound |-> TRUE] \in securityGroups
       /\ Rule("ECSSecurityGroup", AnyIpv4, AllTraffic) \in egressRules
       /\ \A lb \in loadBalancers :
             \E g \in lb.securityGroups : \E r \in ingressRules :
                r.group = "ECSSecurityGroup" /\ r.peer = g
       /\ loadBalancers # {}
       /\ services # {}
       /\ \A svc \in services : svc.securityGroups = {"ECSSecurityGroup"}

\* C7, reached: addTargets has opened ECSSecurityGroup to the load balancer.
C7_ProxyAdmitted ==
    /\ Built
    /\ \E r \in ingressRules :
          r.group = "ECSSecurityGroup" /\ r.peer = "MyALB/SecurityGroup"
    /\ \E svc \in services : "ECSSecurityGroup" \in svc.securityGroups

\* C9: the load balancer has a single listener, on port 80, forwarding to a
\* target group declared with port 80; the port the service is registered
\* with in that group, the port ECSSecurityGroup opens to the load balancer
\* and the container's published port are one port, 5001.
C9_ForwardedPort ==
    Built =>
       /\ Cardinality(listeners) = 1
       /\ \A l \in listeners :
             /\ l.port = 80
             /\ \E lb \in loadBalancers : lb.id = l.loadBalancer
             /\ Cardinality(l.defaultTargetGroups) = 1
             /\ \A g \in l.defaultTargetGroups :
                   /\ \E tg \in targetGroups : tg.id = g /\ tg.port = 80
                   /\ \E svc \in services : \E t \in svc.loadBalancers : t.targetGroup = g
                   /\ \A svc \in services :
                         \A t \in { u \in svc.loadBalancers : u.targetGroup = g } :
                            /\ t.containerPort = 5001
                            /\ t.containerPort =
                                 DefaultContainer(svc.taskDefinition).portMappings[1].containerPort
                            /\ { <<r.fromPort, r.toPort>> : r \in { q \in ingressRules :
                                     /\ q.group \in svc.securityGroups
                                     /\ \E lb \in loadBalancers :
                                           lb.id = l.loadBalancer
                                           /\ q.peer \in lb.securityGroups } }
                                 = { <<t.containerPort, t.containerPort>> }

\* C9, reached: the listener forwards to a group declared with another port
\* than the one the service is registered with.
C9_Forwarding ==
    /\ Built
    /\ \E l \in listeners : \E tg \in targetGroups :
          /\ tg.id \in l.defaultTargetGroups
          /\ tg.port # 5001
          /\ \E svc \in services : \E t \in svc.loadBalancers :
                t.targetGroup = tg.id /\ t.containerPort = 5001

\* What C10 says of every state of a deployment: the references stay within
\* the template and have no cycle; a resource is created only after those
\* it references (the network before its subnets, the subnets before the
\* service); and while a resource is missing, one can be created.
C10_Ordered ==
    pc = "deploy" =>
       /\ \A id \in DOMAIN template : template[id] \subseteq DOMAIN template
       /\ Unordered(DOMAIN template) = {}
       /\ \A id \in DOMAIN template :
             status[id] = "created" => \A d \in template[id] : status[d] = "created"
       /\ \A s \in subnets :
             /\ Resource("MyVpc") \in template[SubnetResource(s)]
             /\ \A svc \in services :
                   s \in svc.subnets => SubnetResource(s) \in template[Resource(svc.id)]
       /\ (\E id \in DOMAIN template : status[id] = "absent")
             => \E id \in DOMAIN template :
                   /\ status[id] = "absent"
                   /\ \A d \in template[id] : status[d] = "created"

\* C10: the declared references form an acyclic graph, so the engine that
\* creates a resource only after everything it references never deadlocks
\* and eventually has created every resource.
C10_AcyclicDeployment == [] C10_Ordered /\ <> AllCreated

\* C10, reached: every resource of the template has been created.
C10_Deployed ==
    /\ AllCreated
    /\ Cardinality(DOMAIN template) > 20
    /\ status[Resource("MyService")] = "created"
====
